---------------------------- MODULE Spec2Model ----------------------------
(***************************************************************************)
(* merge-to-md (src/src/index.js): a CLI that walks a directory tree,      *)
(* collects its files in sorted depth-first order under exclude rules and  *)
(* writes them into one Markdown document.                                 *)
(*                                                                         *)
(* Strings are sequences of one-character strings, so that the regular     *)
(* expressions, the sort and the fence computation work on characters.     *)
(* A path inside the input root is the sequence of its entry names.        *)
(***************************************************************************)
EXTENDS Integers, Sequences, FiniteSets, TLC

VARIABLES
  pc,             \* position of the program
  cap,            \* number of entries the directory tree may hold
  fs,             \* the directory tree: path -> entry
  argv,           \* process.argv from index 2 on
  args,           \* the record parseArgs returned
  excludeRegexes, \* the rules compileExcludeRegexes returned
  maxDepth,       \* collectFiles parameter
  followSymlinks, \* collectFiles parameter
  stack,          \* pending calls of walk, innermost first
  files,          \* the accumulator of collectFiles
  run,            \* 1 during the first traversal of the tree, 2 during the second
  firstFiles,     \* what the first traversal returned
  out,            \* the document buildContext assembles, one record per block
  fileIdx,        \* index in files of the file buildContext is at
  wrote,          \* number of calls of fs.promises.writeFile on the output path
  exitCode,       \* process exit code, -1 while the process runs
  content,        \* argument of fenceFor
  fence           \* result of fenceFor

vars == <<pc, cap, fs, argv, args, excludeRegexes, maxDepth, followSymlinks,
          stack, files, run, firstFiles, out, fileIdx, wrote, exitCode, content, fence>>

-----------------------------------------------------------------------------
(* Bounds of the model *)

MaxTreeDepth == 2
MaxEntries == 3
TwiceMaxEntries == 2
MainMaxEntries == 2
LiveMaxEntries == 2
MaxSymlinks == 2
MaxContentLen == 6
MaxBufferLen == 1
MaxExcludeLen == 4

-----------------------------------------------------------------------------
(* Strings *)

Nil == <<>>

RECURSIVE JoinWith(_, _)
JoinWith(parts, sep) ==
  IF parts = <<>> THEN <<>>
  ELSE IF Len(parts) = 1 THEN parts[1]
  ELSE parts[1] \o sep \o JoinWith(Tail(parts), sep)

StartsWith(s, prefix) ==
  /\ Len(prefix) <= Len(s)
  /\ SubSeq(s, 1, Len(prefix)) = prefix

Contains(s, lit) ==
  \E p \in 0..(Len(s) - Len(lit)) : SubSeq(s, p + 1, p + Len(lit)) = lit

Max(a, b) == IF a >= b THEN a ELSE b

RECURSIVE Repeat(_, _)
Repeat(c, n) == IF n <= 0 THEN <<>> ELSE <<c>> \o Repeat(c, n - 1)

SeqsUpTo(S, n) == UNION {[1..k -> S] : k \in 0..n}


-----------------------------------------------------------------------------
(* JavaScript RegExp, for the patterns over the characters the model uses:  *)
(* literal characters, \x identity escapes, ^ and $, capturing groups and   *)
(* character classes.  A compiled RegExp is the sequence of its atoms.      *)

\* index of the "]" closing the class opened before position i, 0 if none
RECURSIVE ClassEnd(_, _)
ClassEnd(s, i) ==
  IF i > Len(s) THEN 0
  ELSE IF s[i] = "\\" THEN ClassEnd(s, i + 2)
  ELSE IF s[i] = "]" THEN i
  ELSE ClassEnd(s, i + 1)

\* the characters of a class body, escapes resolved
RECURSIVE ClassChars(_)
ClassChars(b) ==
  IF b = <<>> THEN {}
  ELSE IF b[1] = "\\" THEN {b[2]} \cup ClassChars(SubSeq(b, 3, Len(b)))
  ELSE {b[1]} \cup ClassChars(Tail(b))

ClassAtom(body) ==
  IF body # <<>> /\ body[1] = "^"
  THEN [t |-> "class", neg |-> TRUE, set |-> ClassChars(Tail(body))]
  ELSE [t |-> "class", neg |-> FALSE, set |-> ClassChars(body)]

SyntaxError == [ok |-> FALSE, atoms |-> <<>>]

RECURSIVE ParsePattern(_, _, _, _)
ParsePattern(s, i, open, atoms) ==
  IF i > Len(s) THEN (IF open = 0 THEN [ok |-> TRUE, atoms |-> atoms] ELSE SyntaxError)
  ELSE LET c == s[i] IN
    CASE c = "\\" ->
           IF i = Len(s) THEN SyntaxError
           ELSE ParsePattern(s, i + 2, open, Append(atoms, [t |-> "char", c |-> s[i + 1]]))
      [] c = "(" -> ParsePattern(s, i + 1, open + 1, atoms)
      [] c = ")" ->
           IF open = 0 THEN SyntaxError
           ELSE ParsePattern(s, i + 1, open - 1, atoms)
      [] c = "[" ->
           LET e == ClassEnd(s, i + 1) IN
           IF e = 0 \/ e > Len(s) THEN SyntaxError
           ELSE ParsePattern(s, e + 1, open,
                             Append(atoms, ClassAtom(SubSeq(s, i + 1, e - 1))))
      [] c = "^" -> ParsePattern(s, i + 1, open, Append(atoms, [t |-> "bol"]))
      [] c = "$" -> ParsePattern(s, i + 1, open, Append(atoms, [t |-> "eol"]))
      [] OTHER -> ParsePattern(s, i + 1, open, Append(atoms, [t |-> "char", c |-> c]))

\* new RegExp(s): ok = FALSE when the constructor throws a SyntaxError
RegExp(s) == ParsePattern(s, 1, 0, <<>>)

RECURSIVE MatchAt(_, _, _, _)
MatchAt(atoms, k, str, pos) ==
  IF k > Len(atoms) THEN TRUE
  ELSE LET a == atoms[k] IN
    CASE a.t = "bol" -> pos = 0 /\ MatchAt(atoms, k + 1, str, pos)
      [] a.t = "eol" -> pos = Len(str) /\ MatchAt(atoms, k + 1, str, pos)
      [] a.t = "char" ->
           /\ pos < Len(str)
           /\ str[pos + 1] = a.c
           /\ MatchAt(atoms, k + 1, str, pos + 1)
      [] a.t = "class" ->
           /\ pos < Len(str)
           /\ ((str[pos + 1] \in a.set) # a.neg)
           /\ MatchAt(atoms, k + 1, str, pos + 1)

\* r.test(str): an unanchored search
Test(r, str) == \E pos \in 0..Len(str) : MatchAt(r.atoms, 1, str, pos)

-----------------------------------------------------------------------------
(* compileExcludeRegexes and matchesAnyRegex *)

RECURSIVE Split(_, _)
Split(s, sep) ==
  IF \A i \in 1..Len(s) : s[i] # sep THEN <<s>>
  ELSE LET i == CHOOSE j \in 1..Len(s) :
                  s[j] = sep /\ \A k \in 1..(j - 1) : s[k] # sep
       IN <<SubSeq(s, 1, i - 1)>> \o Split(SubSeq(s, i + 1, Len(s)), sep)

RECURSIVE Trim(_)
Trim(s) ==
  IF s = <<>> THEN s
  ELSE IF s[1] = " " THEN Trim(Tail(s))
  ELSE IF s[Len(s)] = " " THEN Trim(SubSeq(s, 1, Len(s) - 1))
  ELSE s

\* the character class of the escaping expression: [.*+?^${}()|[\\]
EscapeClass == {".", "*", "+", "?", "^", "$", "{", "}", "(", ")", "|", "[", "\\"}

\* /[.*+?^${}()|[\\]\\\\]/ matches at i: the class "[.*+?^${}()|[\\]" is closed by
\* its first "]", and is followed by two literal backslashes and a literal "]"
EscapeMatchesAt(s, i) ==
  /\ i + 3 <= Len(s)
  /\ s[i] \in EscapeClass
  /\ s[i + 1] = "\\"
  /\ s[i + 2] = "\\"
  /\ s[i + 3] = "]"

\* s.replace(/[.*+?^${}()|[\\]\\\\]/g, "\\$&")
RECURSIVE EscapeFrom(_, _)
EscapeFrom(s, i) ==
  IF i > Len(s) THEN <<>>
  ELSE IF EscapeMatchesAt(s, i)
       THEN <<"\\">> \o SubSeq(s, i, i + 3) \o EscapeFrom(s, i + 4)
       ELSE <<s[i]>> \o EscapeFrom(s, i + 1)

EscapeLiteral(s) == EscapeFrom(s, 1)

\* the callback of the last map: try new RegExp(s), catch new RegExp(escaped s)
CompileEntry(s) ==
  IF RegExp(s).ok THEN RegExp(s) ELSE RegExp(EscapeLiteral(s))

RECURSIVE FilterNonEmpty(_)
FilterNonEmpty(ss) ==
  IF ss = <<>> THEN <<>>
  ELSE IF Head(ss) = <<>> THEN FilterNonEmpty(Tail(ss))
  ELSE <<Head(ss)>> \o FilterNonEmpty(Tail(ss))

\* the entries of the exclude string: split(','), trim, filter(Boolean)
ExcludeEntries(excludeStr) ==
  IF excludeStr = Nil THEN <<>>
  ELSE LET parts == Split(excludeStr, ",") IN
       FilterNonEmpty([i \in 1..Len(parts) |-> Trim(parts[i])])

\* threw = TRUE when the SyntaxError of the catch block's RegExp leaves the function
CompileExcludeRegexes(excludeStr) ==
  LET es == ExcludeEntries(excludeStr)
      rs == [i \in 1..Len(es) |-> CompileEntry(es[i])]
  IN [threw |-> \E i \in 1..Len(rs) : ~rs[i].ok, rules |-> rs]

MatchesAnyRegex(str, regexes) ==
  \E i \in 1..Len(regexes) : Test(regexes[i], str)

-----------------------------------------------------------------------------
(* fenceFor *)

\* the character U+0060, which a TLA+ string cannot hold
Backtick == "BACKTICK"

\* content.match(/BACKTICK+/g): the lengths of the maximal runs of backticks
RECURSIVE BacktickRuns(_, _, _)
BacktickRuns(c, i, cur) ==
  IF i > Len(c) THEN (IF cur > 0 THEN <<cur>> ELSE <<>>)
  ELSE IF c[i] = Backtick THEN BacktickRuns(c, i + 1, cur + 1)
  ELSE (IF cur > 0 THEN <<cur>> ELSE <<>>) \o BacktickRuns(c, i + 1, 0)

RECURSIVE MaxOf(_, _)
MaxOf(ns, m) == IF ns = <<>> THEN m ELSE MaxOf(Tail(ns), Max(m, Head(ns)))

FenceFor(c) ==
  LET matches == BacktickRuns(c, 1, 0) IN
  IF matches = <<>> THEN <<Backtick, Backtick, Backtick>>
  ELSE Repeat(Backtick, MaxOf(matches, 0) + 1)

-----------------------------------------------------------------------------
(* parseArgs *)

OptH == <<"-", "h">>
OptHelp == <<"-", "-", "h", "e", "l", "p">>
OptI == <<"-", "i">>
OptInput == <<"-", "-", "i", "n", "p", "u", "t">>
OptE == <<"-", "e">>
OptExclude == <<"-", "-", "e", "x", "c", "l", "u", "d", "e">>
OptO == <<"-", "o">>
OptOutput == <<"-", "-", "o", "u", "t", "p", "u", "t">>
OptD == <<"-", "d">>
OptDryRun == <<"-", "-", "d", "r", "y", "-", "r", "u", "n">>
OptM == <<"-", "m">>
OptMaxDepth == <<"-", "-", "m", "a", "x", "-", "d", "e", "p", "t", "h">>
OptL == <<"-", "l">>
OptFollowSymlinks ==
  <<"-", "-", "f", "o", "l", "l", "o", "w", "-", "s", "y", "m", "l", "i", "n", "k", "s">>

\* a depth limit: a number, Infinity or NaN
Infinity == [kind |-> "inf", n |-> 0]
NaN == [kind |-> "nan", n |-> 0]
Num(k) == [kind |-> "num", n |-> k]

Digits == {"0", "1", "2", "3", "4", "5", "6", "7", "8", "9"}

DigitValue(c) ==
  CASE c = "0" -> 0 [] c = "1" -> 1 [] c = "2" -> 2 [] c = "3" -> 3 [] c = "4" -> 4
    [] c = "5" -> 5 [] c = "6" -> 6 [] c = "7" -> 7 [] c = "8" -> 8 [] c = "9" -> 9

RECURSIVE DecimalValue(_, _)
DecimalValue(s, acc) ==
  IF s = <<>> THEN acc ELSE DecimalValue(Tail(s), 10 * acc + DigitValue(Head(s)))

\* Number(x) for undefined, the empty string and strings of decimal digits;
\* every other string of the model's characters converts to NaN
NumberOf(s, defined) ==
  IF ~defined THEN NaN
  ELSE IF \A i \in 1..Len(s) : s[i] \in Digits THEN Num(DecimalValue(s, 0))
  ELSE NaN

DefaultArgs ==
  [input |-> Nil, exclude |-> Nil, output |-> Nil, help |-> FALSE, dryRun |-> FALSE,
   maxDepth |-> Infinity, followSymlinks |-> FALSE]

\* a.startsWith(key + '=')
HasKey(a, key) == StartsWith(a, key \o <<"=">>)

\* a.split('=')[1]
ValueOf(a) == Split(a, "=")[2]

\* the "--key=value" statements of the loop body, none of which ends the iteration
KeyValueArgs(a, r) ==
  LET r1 == IF HasKey(a, OptInput) THEN [r EXCEPT !.input = ValueOf(a)] ELSE r
      r2 == IF HasKey(a, OptExclude) THEN [r1 EXCEPT !.exclude = ValueOf(a)] ELSE r1
      r3 == IF HasKey(a, OptOutput) THEN [r2 EXCEPT !.output = ValueOf(a)] ELSE r2
      r4 == IF HasKey(a, OptDryRun) THEN [r3 EXCEPT !.dryRun = TRUE] ELSE r3
      r5 == IF HasKey(a, OptMaxDepth)
            THEN [r4 EXCEPT !.maxDepth = NumberOf(ValueOf(a), TRUE)] ELSE r4
  IN IF HasKey(a, OptFollowSymlinks) THEN [r5 EXCEPT !.followSymlinks = TRUE] ELSE r5

\* argv[++i]: Nil when the index is past the end (undefined)
RECURSIVE ParseFrom(_, _, _)
ParseFrom(av, i, r) ==
  IF i > Len(av) THEN r
  ELSE LET a == av[i]
           nxt == IF i + 1 <= Len(av) THEN av[i + 1] ELSE Nil
       IN
    CASE a \in {OptH, OptHelp} -> [r EXCEPT !.help = TRUE]
      [] a \in {OptI, OptInput} -> ParseFrom(av, i + 2, [r EXCEPT !.input = nxt])
      [] a \in {OptE, OptExclude} -> ParseFrom(av, i + 2, [r EXCEPT !.exclude = nxt])
      [] a \in {OptO, OptOutput} -> ParseFrom(av, i + 2, [r EXCEPT !.output = nxt])
      [] a \in {OptD, OptDryRun} -> ParseFrom(av, i + 1, [r EXCEPT !.dryRun = TRUE])
      [] a \in {OptM, OptMaxDepth} ->
           ParseFrom(av, i + 2, [r EXCEPT !.maxDepth = NumberOf(nxt, i + 1 <= Len(av))])
      [] a \in {OptL, OptFollowSymlinks} ->
           ParseFrom(av, i + 1, [r EXCEPT !.followSymlinks = TRUE])
      [] OTHER -> ParseFrom(av, i + 1, KeyValueArgs(a, r))

\* av is process.argv without its first two elements
ParseArgs(av) == ParseFrom(av, 1, DefaultArgs)

-----------------------------------------------------------------------------
(* The directory tree.  fs maps the path of every entry below the input     *)
(* root (and <<>>, the root) to [kind |-> "dir", readable], [kind |->       *)
(* "file"] or [kind |-> "link", where, path]: a link resolves to the        *)
(* directory or file at path inside the root (where = "in"), to an empty    *)
(* directory outside it ("out": /x) or to nothing ("gone").                 *)

Names == {<<"a">>, <<"A">>, <<"E">>}

Paths == UNION {[1..k -> Names] : k \in 1..MaxTreeDepth}

Parent(p) == SubSeq(p, 1, Len(p) - 1)

\* path.resolve(root), the input being the directory /r
RootAbs == <<"/", "r">>
OutAbs == <<"/", "x">>

\* the root-relative path with forward slashes, and path.join(dir, ent.name)
RelStr(p) == JoinWith(p, <<"/">>)
FullStr(p) == RootAbs \o <<"/">> \o RelStr(p)

Failed == [err |-> TRUE, where |-> "gone", path |-> <<>>, kind |-> "none"]

\* what the operating system finds at a path, following every symbolic link
\* on the way; n counts the links followed, and the lookup fails (ELOOP)
\* when it would follow more than MaxSymlinks of them
RECURSIVE ResolveFrom(_, _, _)
ResolveFrom(real, rest, n) ==
  IF rest = <<>>
  THEN [err |-> FALSE, where |-> "in", path |-> real, kind |-> fs[real].kind]
  ELSE LET p == Append(real, Head(rest)) IN
    IF fs[real].kind # "dir" \/ p \notin DOMAIN fs THEN Failed
    ELSE IF fs[p].kind # "link" THEN ResolveFrom(p, Tail(rest), n)
    ELSE IF n + 1 > MaxSymlinks THEN Failed
    ELSE IF fs[p].where = "in" THEN ResolveFrom(fs[p].path, Tail(rest), n + 1)
    ELSE IF fs[p].where = "gone" \/ Tail(rest) # <<>> THEN Failed
    ELSE [err |-> FALSE, where |-> fs[p].where, path |-> <<>>, kind |-> "dir"]

\* fs.promises.stat(path)
Stat(p) == ResolveFrom(<<>>, p, 0)

\* fs.promises.realpath(path) of a path stat found
RealPath(p) ==
  LET r == Stat(p) IN
  IF r.where = "out" THEN OutAbs
  ELSE IF r.path = <<>> THEN RootAbs
  ELSE FullStr(r.path)

\* fs.promises.readdir(dir) succeeds
ReadDirOk(dir) ==
  LET r == Stat(dir) IN
  /\ ~r.err
  /\ r.kind = "dir"
  /\ r.where = "in" => fs[r.path].readable

\* the names readdir returns, in no particular order
ReadDirNames(dir) ==
  LET r == Stat(dir) IN
  IF r.where # "in" THEN {}
  ELSE {n \in Names : Append(r.path, n) \in DOMAIN fs}

\* the Dirent type of entry name of directory dir (the link itself, not its target)
DirentKind(dir, name) == fs[Append(Stat(dir).path, name)].kind

\* every order in which readdir may return the names
Orders(S) ==
  {s \in [1..Cardinality(S) -> S] : \A i, j \in 1..Cardinality(S) : s[i] = s[j] => i = j}

-----------------------------------------------------------------------------
(* The sort of the directory entries *)

\* the letter a character stands for when case is ignored, as its place in the alphabet
BaseLetter(c) ==
  CASE c \in {"a", "A"} -> 1
    [] c \in {"e", "E"} -> 5
    [] OTHER -> 0

\* the UTF-16 code unit of a character
CodeUnit(c) ==
  CASE c = "A" -> 65
    [] c = "E" -> 69
    [] c = "a" -> 97
    [] c = "e" -> 101
    [] OTHER -> 0

\* the comparison of sort() called without a compare function: by code units
RECURSIVE CodeUnitCompare(_, _)
CodeUnitCompare(a, b) ==
  IF a = <<>> /\ b = <<>> THEN 0
  ELSE IF a = <<>> THEN -1
  ELSE IF b = <<>> THEN 1
  ELSE IF CodeUnit(Head(a)) < CodeUnit(Head(b)) THEN -1
  ELSE IF CodeUnit(Head(a)) > CodeUnit(Head(b)) THEN 1
  ELSE CodeUnitCompare(Tail(a), Tail(b))

\* a.localeCompare(b, undefined, { sensitivity: "base" }): -1, 0 or 1
RECURSIVE LocaleCompare(_, _)
LocaleCompare(a, b) ==
  IF a = <<>> /\ b = <<>> THEN 0
  ELSE IF a = <<>> THEN -1
  ELSE IF b = <<>> THEN 1
  ELSE IF BaseLetter(Head(a)) < BaseLetter(Head(b)) THEN -1
  ELSE IF BaseLetter(Head(a)) > BaseLetter(Head(b)) THEN 1
  ELSE LocaleCompare(Tail(a), Tail(b))

\* x placed behind every element of the sorted sequence that does not follow it
RECURSIVE InsertSorted(_, _)
InsertSorted(sorted, x) ==
  IF sorted = <<>> THEN <<x>>
  ELSE IF LocaleCompare(sorted[Len(sorted)], x) <= 0 THEN Append(sorted, x)
  ELSE Append(InsertSorted(SubSeq(sorted, 1, Len(sorted) - 1), x), sorted[Len(sorted)])

\* entries.slice().sort(compare): Array.prototype.sort is stable
RECURSIVE SortEntries(_)
SortEntries(entries) ==
  IF entries = <<>> THEN <<>>
  ELSE InsertSorted(SortEntries(SubSeq(entries, 1, Len(entries) - 1)),
                    entries[Len(entries)])

-----------------------------------------------------------------------------
(* collectFiles.  A frame of stack is one call of walk: its directory (the  *)
(* names below the root, symbolic links unresolved), its depth, its sorted  *)
(* entries and the index of the entry the for loop is at.                   *)

Frame(dir, depth) ==
  [dir |-> dir, depth |-> depth, entries |-> <<>>, idx |-> 0, st |-> "enter"]

\* the call stack cannot be deeper than the longest path the operating system resolves
StackLimit == (MaxSymlinks + 1) * MaxTreeDepth + 2

\* currentDepth > maxDepth
DepthExceeded(currentDepth, limit) == limit.kind = "num" /\ currentDepth > limit.n

\* an exclude test that looks at the absolute path alone
IsExcludedByFullPath(rel, full, regexes) == MatchesAnyRegex(full, regexes)

\* the test of the if statement that skips an entry
IsExcluded(rel, full, regexes) ==
  MatchesAnyRegex(rel, regexes) \/ MatchesAnyRegex(full, regexes)

\* a symlink branch that recurses into the real path of the link
SymlinkWalkRealPath(full, real) == real

\* the directory the symlink branch recurses into: full, of which real is the real path
SymlinkWalkDir(full, real) == full

\* the check that lets a followed link through
InsideRoot(resolvedPath) == StartsWith(resolvedPath, RootAbs)

FileRef(p) == [full |-> FullStr(p), rel |-> RelStr(p)]

\* collectFiles(root, excludeRegexes, maxDepth, followSymlinks) is called
StartWalk ==
  /\ files' = <<>>
  /\ stack' = <<Frame(<<>>, 0)>>
  /\ pc' = "walk"

\* walk(dir, currentDepth) up to its for loop: the depth check, readdir and the sort
WalkEnter ==
  /\ pc = "walk"
  /\ stack # <<>>
  /\ Head(stack).st = "enter"
  /\ LET f == Head(stack) IN
     IF DepthExceeded(f.depth, maxDepth) \/ ~ReadDirOk(f.dir)
     THEN stack' = Tail(stack)
     ELSE \E order \in Orders(ReadDirNames(f.dir)) :
            stack' = <<[f EXCEPT !.entries = SortEntries(order), !.idx = 1, !.st = "loop"]>>
                     \o Tail(stack)
  /\ UNCHANGED <<pc, cap, fs, argv, args, excludeRegexes, maxDepth, followSymlinks,
                 files, run, firstFiles, out, fileIdx, wrote, exitCode, content, fence>>

\* one iteration of the for loop of walk
WalkEntry ==
  /\ pc = "walk"
  /\ stack # <<>>
  /\ Head(stack).st = "loop"
  /\ Head(stack).idx <= Len(Head(stack).entries)
  /\ Len(stack) < StackLimit
  /\ LET f == Head(stack)
         name == f.entries[f.idx]
         full == Append(f.dir, name)
         kind == DirentKind(f.dir, name)
         rest == <<[f EXCEPT !.idx = @ + 1]>> \o Tail(stack)
         skip == stack' = rest /\ files' = files
         emit == stack' = rest /\ files' = Append(files, FileRef(full))
     IN
     IF IsExcluded(RelStr(full), FullStr(full), excludeRegexes) THEN skip
     ELSE IF kind = "dir"
          THEN stack' = <<Frame(full, f.depth + 1)>> \o rest /\ files' = files
     ELSE IF kind = "file" THEN emit
     ELSE IF ~followSymlinks THEN skip
     ELSE IF Stat(full).err THEN skip
     ELSE IF Stat(full).kind = "file" THEN emit
     ELSE IF ~InsideRoot(RealPath(full)) THEN skip
     ELSE /\ stack' = <<Frame(SymlinkWalkDir(full, Stat(full).path), f.depth + 1)>> \o rest
          /\ files' = files
  /\ UNCHANGED <<pc, cap, fs, argv, args, excludeRegexes, maxDepth, followSymlinks,
                 run, firstFiles, out, fileIdx, wrote, exitCode, content, fence>>

\* the for loop of walk is over: the call returns
WalkReturn ==
  /\ pc = "walk"
  /\ stack # <<>>
  /\ Head(stack).st = "loop"
  /\ Head(stack).idx > Len(Head(stack).entries)
  /\ stack' = Tail(stack)
  /\ UNCHANGED <<pc, cap, fs, argv, args, excludeRegexes, maxDepth, followSymlinks,
                 files, run, firstFiles, out, fileIdx, wrote, exitCode, content, fence>>

\* walk(resolvedRoot) has returned: collectFiles returns files
WalkDone ==
  /\ pc = "walk"
  /\ stack = <<>>
  /\ pc' = "collected"
  /\ UNCHANGED <<cap, fs, argv, args, excludeRegexes, maxDepth, followSymlinks, stack,
                 files, run, firstFiles, out, fileIdx, wrote, exitCode, content, fence>>

-----------------------------------------------------------------------------
(* buildContext and main *)

\* the byte 0x00
Nul == "NUL"

\* the byte strings a file of the model may hold
Buffers == SeqsUpTo({Nul, Backtick, "x"}, MaxBufferLen)

\* isLikelyBinary(buffer); no caller in index.js
IsLikelyBinary(buffer) == \E i \in 1..Len(buffer) : buffer[i] = Nul

\* what fs.promises.stat finds at path.resolve(input), the working directory being /
InputStat(input) ==
  IF input = <<"r">> THEN "dir"
  ELSE IF input = <<"f">> THEN "file"
  ELSE "missing"

\* the command lines of the model: an input, or none, and up to two options
InputArgs == {<<>>, <<OptI, <<"r">>>>, <<OptInput \o <<"=", "r">>>>, <<OptI, <<"f">>>>,
              <<OptI, <<"q">>>>, <<OptI>>}
OptionArgs ==
  {<<>>, <<OptE, <<"^", "a", "$">>>>, <<OptExclude \o <<"=", "(">>>>,
   <<OptM, <<"0">>>>, <<OptMaxDepth \o <<"=", "1">>>>, <<OptM>>,
   <<OptD>>, <<OptDryRun>>, <<OptL>>, <<OptH>>, <<OptO, <<"o">>>>}
ArgvSet ==
  {i \o o : i \in InputArgs, o \in OptionArgs}
  \cup {<<OptI, <<"r">>>> \o o \o <<OptM, <<"0">>>> : o \in {<<OptD>>, <<OptE, <<"/", "E">>>>}}

Exit(code) ==
  /\ pc' = "exit"
  /\ exitCode' = code

\* main from its first line to the call of collectFiles, which gets the input path
\* and the exclude rules and no other argument
MainStart ==
  /\ pc = "setup"
  /\ \E av \in ArgvSet :
       /\ argv' = av
       /\ args' = ParseArgs(av)
       /\ LET r == ParseArgs(av)
              c == CompileExcludeRegexes(r.exclude)
          IN
          IF r.help \/ r.input = Nil
          THEN /\ Exit(IF r.help THEN 0 ELSE 1)
               /\ UNCHANGED <<excludeRegexes, stack, files>>
          ELSE IF InputStat(r.input) = "missing"
          THEN Exit(2) /\ UNCHANGED <<excludeRegexes, stack, files>>
          ELSE IF InputStat(r.input) # "dir"
          THEN Exit(3) /\ UNCHANGED <<excludeRegexes, stack, files>>
          ELSE IF c.threw
          THEN Exit(1) /\ UNCHANGED <<excludeRegexes, stack, files>>
          ELSE /\ excludeRegexes' = c.rules
               /\ StartWalk
               /\ exitCode' = exitCode
  /\ maxDepth' = Infinity
  /\ followSymlinks' = FALSE
  /\ UNCHANGED <<cap, fs, run, firstFiles, out, fileIdx, wrote, content, fence>>

\* main after collectFiles returned
MainCollected ==
  /\ pc = "collected"
  /\ IF files = <<>>
     THEN Exit(4)
     ELSE pc' = "build" /\ exitCode' = exitCode
  /\ UNCHANGED <<cap, fs, argv, args, excludeRegexes, maxDepth, followSymlinks, stack,
                 files, run, firstFiles, out, fileIdx, wrote, content, fence>>

\* the block of one file; the language tag of the opening fence is left out
Block(f, text) == [full |-> f.full, rel |-> f.rel, fence |-> FenceFor(text), content |-> text]

\* one iteration of the for loop of buildContext: readFile fails or returns the
\* bytes of the file, and isBinaryFileSync of the isbinaryfile package answers
BuildStep ==
  /\ pc = "build"
  /\ fileIdx <= Len(files)
  /\ \E readOk \in BOOLEAN, buffer \in Buffers, binary \in BOOLEAN :
       IF ~readOk \/ binary
       THEN out' = out
       ELSE out' = Append(out, Block(files[fileIdx], buffer))
  /\ fileIdx' = fileIdx + 1
  /\ UNCHANGED <<pc, cap, fs, argv, args, excludeRegexes, maxDepth, followSymlinks, stack,
                 files, run, firstFiles, wrote, exitCode, content, fence>>

\* buildContext returned: main writes the document
MainWrite ==
  /\ pc = "build"
  /\ fileIdx > Len(files)
  /\ \E ok \in BOOLEAN :
       IF ok THEN Exit(0) ELSE Exit(5)
  /\ wrote' = wrote + 1
  /\ UNCHANGED <<cap, fs, argv, args, excludeRegexes, maxDepth, followSymlinks, stack,
                 files, run, firstFiles, out, fileIdx, content, fence>>

-----------------------------------------------------------------------------
(* The environment builds the directory tree before the program starts *)

CanAdd(p) ==
  /\ pc = "setup"
  /\ Cardinality(DOMAIN fs) <= cap
  /\ p \notin DOMAIN fs
  /\ Parent(p) \in DOMAIN fs
  /\ fs[Parent(p)].kind = "dir"

AddFile ==
  /\ \E p \in Paths : CanAdd(p) /\ fs' = fs @@ (p :> [kind |-> "file"])
  /\ UNCHANGED <<pc, cap, argv, args, excludeRegexes, maxDepth, followSymlinks, stack,
                 files, run, firstFiles, out, fileIdx, wrote, exitCode, content, fence>>

AddDir ==
  /\ \E p \in Paths, readable \in BOOLEAN :
       CanAdd(p) /\ fs' = fs @@ (p :> [kind |-> "dir", readable |-> readable])
  /\ UNCHANGED <<pc, cap, argv, args, excludeRegexes, maxDepth, followSymlinks, stack,
                 files, run, firstFiles, out, fileIdx, wrote, exitCode, content, fence>>

LinkTargets ==
  {[kind |-> "link", where |-> "in", path |-> q] :
     q \in {x \in DOMAIN fs : fs[x].kind \in {"dir", "file"}}}
  \cup {[kind |-> "link", where |-> w, path |-> <<>>] : w \in {"out", "gone"}}

AddLink ==
  /\ \E p \in Paths, l \in LinkTargets : CanAdd(p) /\ fs' = fs @@ (p :> l)
  /\ UNCHANGED <<pc, cap, argv, args, excludeRegexes, maxDepth, followSymlinks, stack,
                 files, run, firstFiles, out, fileIdx, wrote, exitCode, content, fence>>

\* the exclude strings and depth limits collectFiles is called with
WalkExcludes == {Nil, <<"^", "a", "$">>, <<"/", "E">>}
WalkDepths == {Infinity, Num(0)}

\* a caller calls collectFiles(root, excludeRegexes, maxDepth, followSymlinks)
CallCollectFiles ==
  /\ pc = "setup"
  /\ StartWalk
  /\ UNCHANGED <<cap, fs, argv, args, excludeRegexes, maxDepth, followSymlinks, run,
                 firstFiles, out, fileIdx, wrote, exitCode, content, fence>>

\* the caller calls collectFiles again, with the same arguments, on the same tree
CallAgain ==
  /\ pc = "collected"
  /\ run = 1
  /\ run' = 2
  /\ firstFiles' = files
  /\ StartWalk
  /\ UNCHANGED <<cap, fs, argv, args, excludeRegexes, maxDepth, followSymlinks, out,
                 fileIdx, wrote, exitCode, content, fence>>

-----------------------------------------------------------------------------
(* Specifications *)

InitWith(p, c) ==
  /\ pc = p
  /\ cap = c
  /\ fs \in {(<<>> :> [kind |-> "dir", readable |-> r]) : r \in BOOLEAN}
  /\ argv = <<>>
  /\ args = DefaultArgs
  /\ stack = <<>>
  /\ files = <<>>
  /\ run = 1
  /\ firstFiles = <<>>
  /\ out = <<>>
  /\ fileIdx = 1
  /\ wrote = 0
  /\ exitCode = -1
  /\ content = <<>>
  /\ fence = <<>>

Setup == AddFile \/ AddDir \/ AddLink
Walk == WalkEnter \/ WalkEntry \/ WalkReturn \/ WalkDone

\* collectFiles, called once with any of the arguments of the model
InitWalk ==
  /\ InitWith("setup", MaxEntries)
  /\ excludeRegexes \in {CompileExcludeRegexes(e).rules : e \in WalkExcludes}
  /\ maxDepth \in WalkDepths
  /\ followSymlinks \in BOOLEAN
NextWalk == Setup \/ CallCollectFiles \/ Walk
SpecWalk == InitWalk /\ [][NextWalk]_vars

\* collectFiles, called once without exclude rule or depth limit on a tree of
\* regular files and directories only
InitTree ==
  /\ InitWith("setup", MaxEntries)
  /\ excludeRegexes = CompileExcludeRegexes(Nil).rules
  /\ maxDepth = Infinity
  /\ followSymlinks \in BOOLEAN
NextTree == AddFile \/ AddDir \/ CallCollectFiles \/ Walk
SpecTree == InitTree /\ [][NextTree]_vars

\* collectFiles, called twice with the same arguments on one tree
InitTwice ==
  /\ InitWith("setup", TwiceMaxEntries)
  /\ excludeRegexes \in {CompileExcludeRegexes(e).rules : e \in WalkExcludes}
  /\ maxDepth \in WalkDepths
  /\ followSymlinks \in BOOLEAN
NextTwice == Setup \/ CallCollectFiles \/ Walk \/ CallAgain
SpecTwice == InitTwice /\ [][NextTwice]_vars

\* collectFiles following symbolic links to any depth; the event loop runs every
\* continuation that is ready, so a step that can be taken is taken
InitLive ==
  /\ InitWith("setup", LiveMaxEntries)
  /\ excludeRegexes \in {CompileExcludeRegexes(e).rules : e \in WalkExcludes}
  /\ maxDepth = Infinity
  /\ followSymlinks = TRUE
NextLive == Setup \/ CallCollectFiles \/ Walk
SpecLive == InitLive /\ [][NextLive]_vars /\ WF_vars(NextLive)

\* the program
Init ==
  /\ InitWith("setup", MainMaxEntries)
  /\ excludeRegexes = <<>>
  /\ maxDepth = Infinity
  /\ followSymlinks = FALSE
Next == Setup \/ MainStart \/ Walk \/ MainCollected \/ BuildStep \/ MainWrite
Spec == Init /\ [][Next]_vars

\* fenceFor on every content of the bound
FenceStep ==
  /\ pc = "fence"
  /\ fence' = FenceFor(content)
  /\ pc' = "fenced"
  /\ UNCHANGED <<cap, fs, argv, args, excludeRegexes, maxDepth, followSymlinks, stack,
                 files, run, firstFiles, out, fileIdx, wrote, exitCode, content>>

InitFence ==
  /\ pc = "fence"
  /\ content \in SeqsUpTo({Backtick, "x"}, MaxContentLen)
  /\ cap = 0
  /\ fs = (<<>> :> [kind |-> "dir", readable |-> TRUE])
  /\ argv = <<>>
  /\ args = DefaultArgs
  /\ excludeRegexes = <<>>
  /\ maxDepth = Infinity
  /\ followSymlinks = FALSE
  /\ stack = <<>>
  /\ files = <<>>
  /\ run = 1
  /\ firstFiles = <<>>
  /\ out = <<>>
  /\ fileIdx = 1
  /\ wrote = 0
  /\ exitCode = -1
  /\ fence = <<>>
SpecFence == InitFence /\ [][FenceStep]_vars

\* compileExcludeRegexes on every exclude string of the bound
ExcludeAlphabet == {"a", "(", "[", "]", "\\", ",", " "}

CompileStep ==
  /\ pc = "compile"
  /\ LET c == CompileExcludeRegexes(args.exclude) IN
     IF c.threw
     THEN pc' = "threw" /\ excludeRegexes' = excludeRegexes
     ELSE pc' = "compiled" /\ excludeRegexes' = c.rules
  /\ UNCHANGED <<cap, fs, argv, args, maxDepth, followSymlinks, stack, files, run,
                 firstFiles, out, fileIdx, wrote, exitCode, content, fence>>

InitRegex ==
  /\ pc = "compile"
  /\ cap = 0
  /\ fs = (<<>> :> [kind |-> "dir", readable |-> TRUE])
  /\ argv = <<>>
  /\ args \in {[DefaultArgs EXCEPT !.exclude = s] : s \in SeqsUpTo(ExcludeAlphabet, MaxExcludeLen)}
  /\ excludeRegexes = <<>>
  /\ maxDepth = Infinity
  /\ followSymlinks = FALSE
  /\ stack = <<>>
  /\ files = <<>>
  /\ run = 1
  /\ firstFiles = <<>>
  /\ out = <<>>
  /\ fileIdx = 1
  /\ wrote = 0
  /\ exitCode = -1
  /\ content = <<>>
  /\ fence = <<>>
SpecRegex == InitRegex /\ [][CompileStep]_vars

-----------------------------------------------------------------------------
(* Properties *)

TreeFiles == {p \in DOMAIN fs : fs[p].kind = "file"}
NoSymlinks == \A p \in DOMAIN fs : fs[p].kind # "link"
AllReadable == \A p \in DOMAIN fs : fs[p].kind = "dir" => fs[p].readable
Unbounded == maxDepth.kind # "num"

\* the names of a root-relative path
Segments(rel) == Split(rel, "/")

\* the length of the longest common prefix of two sequences of names
RECURSIVE CommonPrefix(_, _)
CommonPrefix(p, q) ==
  IF p = <<>> \/ q = <<>> \/ Head(p) # Head(q) THEN 0
  ELSE 1 + CommonPrefix(Tail(p), Tail(q))

\* the lower-case letters in alphabetical order, and the place of a character's
\* letter among them
Alphabet == <<"a", "e">>
LowerCase(c) == IF c = "A" THEN "a" ELSE IF c = "E" THEN "e" ELSE c
Place(c) == CHOOSE i \in 1..Len(Alphabet) : Alphabet[i] = LowerCase(c)

\* name x does not follow name y in the order that ignores case
RECURSIVE NameNotAfter(_, _)
NameNotAfter(x, y) ==
  IF x = <<>> THEN TRUE
  ELSE IF y = <<>> THEN FALSE
  ELSE IF Place(Head(x)) # Place(Head(y)) THEN Place(Head(x)) < Place(Head(y))
  ELSE NameNotAfter(Tail(x), Tail(y))

\* p is not behind q: where the two paths part, the name of p does not follow the
\* name of q in the order that ignores case
NotBehind(p, q) ==
  LET n == CommonPrefix(p, q) IN
  n < Len(p) /\ n < Len(q) => NameNotAfter(p[n + 1], q[n + 1])

\* the files of one directory subtree lie next to each other in the list
DepthFirst(fl) ==
  \A i, j, k \in 1..Len(fl) :
    i < j /\ j < k =>
      CommonPrefix(Segments(fl[j].rel), Segments(fl[i].rel))
        >= CommonPrefix(Segments(fl[i].rel), Segments(fl[k].rel))

C1Case ==
  /\ pc = "collected"
  /\ excludeRegexes = <<>>
  /\ Unbounded
  /\ NoSymlinks
  /\ AllReadable

\* C1: on a tree without symbolic links whose directories can all be read, with no
\* exclude rule and no depth limit, collectFiles returns exactly the regular files
\* of the tree, each once, in depth-first pre-order, the entries of every directory
\* in the order of their names that ignores case.
C1_ExactlyTheFilesInOrder ==
  C1Case =>
    /\ {files[i].rel : i \in 1..Len(files)} = {RelStr(p) : p \in TreeFiles}
    /\ Len(files) = Cardinality(TreeFiles)
    /\ \A i \in 1..Len(files) : files[i].full = RootAbs \o <<"/">> \o files[i].rel
    /\ \A i, j \in 1..Len(files) :
         i < j => NotBehind(Segments(files[i].rel), Segments(files[j].rel))
    /\ DepthFirst(files)

\* a tree with a file in a subdirectory and names whose order by character code
\* differs from their order ignoring case
C1_Witness ==
  /\ C1Case
  /\ Len(files) >= 2
  /\ \E i \in 1..Len(files) : Len(Segments(files[i].rel)) = 2
  /\ \E i, j \in 1..Len(files) :
       i < j /\ Head(files[i].rel) = "a" /\ Head(files[j].rel) = "E"

\* C2: the order of the files collectFiles returns does not depend on the order in
\* which readdir returns the entries: a second call on the unmodified tree returns
\* the list the first call returned.
C2_SameOrderEveryRun ==
  pc = "collected" /\ run = 2 => files = firstFiles

\* the entries of the model that are directories or symbolic links
Prunable == {p \in DOMAIN fs : p # <<>> /\ fs[p].kind \in {"dir", "link"}}

\* C3: when an exclude rule matches the root-relative path of a directory, no file
\* with a path below that directory is returned, whether or not a rule matches the
\* path of the file itself.
C3_ExcludedDirectoryPruned ==
  pc = "collected" =>
    \A d \in Prunable :
      MatchesAnyRegex(RelStr(d), excludeRegexes) =>
        \A i \in 1..Len(files) : ~StartsWith(files[i].rel, RelStr(d) \o <<"/">>)

\* a readable excluded directory holds a file that no rule matches, and the
\* traversal returned other files
C3_Witness ==
  /\ pc = "collected"
  /\ Unbounded
  /\ fs[<<>>].readable
  /\ files # <<>>
  /\ \E d \in Prunable :
       /\ fs[d].kind = "dir"
       /\ fs[d].readable
       /\ MatchesAnyRegex(RelStr(d), excludeRegexes)
       /\ \E p \in TreeFiles :
            /\ Parent(p) = d
            /\ ~IsExcluded(RelStr(p), FullStr(p), excludeRegexes)

\* the number of directory levels between the root and the file
DirDepth(rel) == Len(Segments(rel)) - 1

\* C4: with --max-depth N the document holds no block of a file that lies more
\* than N directory levels below the input root.
C4_MaxDepthRespected ==
  pc = "exit" /\ args.maxDepth.kind = "num" =>
    \A i \in 1..Len(out) : DirDepth(out[i].rel) <= args.maxDepth.n

\* the longest run of backticks in c, stated without the scan of fenceFor
LongestRun(c) ==
  CHOOSE k \in 0..Len(c) :
    /\ Contains(c, Repeat(Backtick, k))
    /\ ~Contains(c, Repeat(Backtick, k + 1))

\* C5: the fence is one backtick longer than the longest run of backticks of the
\* content and never shorter than three backticks.
C5_FenceLength ==
  pc = "fenced" => fence = Repeat(Backtick, Max(3, LongestRun(content) + 1))

\* C6: a file whose bytes hold a NUL byte has no block in the document, whatever
\* isBinaryFileSync answers.
C6_NulNeverEmitted ==
  \A i \in 1..Len(out) : \A k \in 1..Len(out[i].content) : out[i].content[k] # Nul

\* the run got past the validation of its arguments and of the input path
Validated ==
  /\ ~args.help
  /\ InputStat(args.input) = "dir"
  /\ ~CompileExcludeRegexes(args.exclude).threw

\* C7: a run that ends with no eligible file (none collected, or every collected
\* file binary or unreadable) exits with code 4 and does not write the output.
C7_EmptyResultExits4 ==
  pc = "exit" /\ Validated /\ out = <<>> => exitCode = 4 /\ wrote = 0

\* the strings the rules are tested on
Probes == SeqsUpTo({"a", "(", "[", "]", "\\"}, 3)

\* C8: an exclude entry that is no valid regular expression does not make
\* compileExcludeRegexes throw: its rule matches exactly the strings that contain
\* the entry as a substring.
C8_FallbackIsLiteral ==
  pc # "compile" =>
    LET es == ExcludeEntries(args.exclude) IN
    \A i \in 1..Len(es) :
      ~RegExp(es[i]).ok =>
        /\ pc = "compiled"
        /\ \A s \in Probes : Test(excludeRegexes[i], s) <=> Contains(s, es[i])

\* C9: a run started with --dry-run or -d never writes the output document.
C9_DryRunNeverWrites ==
  args.dryRun => wrote = 0

\* C10: with followSymlinks and no depth limit, collectFiles returns on every tree,
\* also when a symbolic link inside the root resolves to one of its ancestors.
C10_WalkTerminates ==
  [](pc = "walk" /\ followSymlinks /\ Unbounded => <>(pc = "collected"))

\* a link to a directory that holds it
CycleLinks ==
  {p \in DOMAIN fs :
     /\ fs[p].kind = "link"
     /\ fs[p].where = "in"
     /\ fs[fs[p].path].kind = "dir"
     /\ StartsWith(p, fs[p].path)}

\* the traversal went round a cycle and returned: a file was collected through
\* the link more than once
C10_Witness ==
  /\ pc = "collected"
  /\ followSymlinks
  /\ Unbounded
  /\ CycleLinks # {}
  /\ \E i, j \in 1..Len(files) :
       /\ i # j
       /\ Len(files[i].rel) < Len(files[j].rel)
       /\ \E l \in CycleLinks :
            StartsWith(files[j].rel, RelStr(l) \o <<"/">> \o RelStr(l) \o <<"/">>)

\* walk never needs more frames than the model allows
StackWithinLimit == Len(stack) < StackLimit

=============================================================================
